---- MODULE Spec2Model ----
(***************************************************************************)
(* Model of .ci/matrix.py: a one-shot notifier.  The script parses five    *)
(* command-line flags, builds a simplematrixbotlib client, registers the   *)
(* on_startup handler send_message and runs the client.  The client calls  *)
(* the handler once per joined room, one call after the other; the handler *)
(* filters on the room id, sends one notice and calls exit().              *)
(***************************************************************************)
EXTENDS Naturals, Sequences, FiniteSets

VARIABLES argv, args, pc, constructed, rooms, idx, joined_room_id, pending,
          sent, attempts, netCalls, exitStatus, exitedBy, lifecycle, syncTick

vars == <<argv, args, pc, constructed, rooms, idx, joined_room_id, pending,
          sent, attempts, netCalls, exitStatus, exitedBy, lifecycle, syncTick>>

\* ---------------------------------------------------------------- bounds
\* Largest number of rooms the client reports as joined at startup.
MaxRooms == 3

\* ---------------------------------------------------------------- values
\* Python's None: the value argparse stores for a flag that was not given.
\* It is not a string of any of the domains below.
None == "<None>"

RoomIds == {"!a:matrix.org", "!b:matrix.org", "!c:matrix.org",
            "!d:matrix.org"}

\* Values of -r/--room: absent, the empty string, a joined-able room id, or
\* an id of a room the bot is in no case a member of.
RoomArgs == {None, "", "!a:matrix.org", "!b:matrix.org", "!z:matrix.org"}

MessageArgs == {None, "build passed", "**build failed**"}
ServerArgs == {None, "https://matrix.org"}
UserArgs == {None, "@ci:matrix.org"}
TokenArgs == {None, "syt_token"}

\* A command line: the value given for each flag (None when the flag is
\* omitted) and whether it carries something argparse cannot parse (an
\* unknown flag, a flag without its value).
ArgvSet == [message : MessageArgs, server : ServerArgs, user : UserArgs,
            token : TokenArgs, room : RoomArgs, malformed : BOOLEAN]

\* The client keeps the joined rooms in a dict keyed by room id, so the
\* startup loop sees every room id once.
RoomSeqs == {s \in UNION {[1..n -> RoomIds] : n \in 0..MaxRooms} :
               \A i, j \in 1..Len(s) : i # j => s[i] # s[j]}

\* ------------------------------------------------------- pure functions
\* Variant: `is not None` in place of truthiness; "" counts as a target.
Truthy_IsNotNone(x) == x # None

\* Variant: only "" is false; a missing -r counts as a target.
Truthy_NoneIsSet(x) == x # ""

\* Truth value of a Python str-or-None: None and "" are false.
Truthy(x) == x # None /\ x # ""

\* Variant: the text is markdown-escaped before it is sent.
FormatMessage_Escaped(m) ==
    IF m = None THEN "None"
    ELSE IF m = "**build failed**" THEN "\\*\\*build failed\\*\\*"
    ELSE m

\* f"""{args.message}""": str() of the value; str(None) is "None".
FormatMessage(m) == IF m = None THEN "None" ELSE m

\* Variant: the comparison is inverted (== for !=).
RoomFiltered_Inverted(room, joined) == Truthy(room) /\ room = joined

\* The guard of line 22: the event is skipped when a target is set and
\* differs from the joined room.
RoomFiltered(room, joined) == Truthy(room) /\ room # joined

\* The namespace parse_args returns: every flag is optional (no
\* required=True), a flag not given is None.
Namespace(a) == [message |-> a.message, server |-> a.server, user |-> a.user,
                 token |-> a.token, room |-> a.room]

UnparsedArgs == [message |-> None, server |-> None, user |-> None,
                 token |-> None, room |-> None]

NoMessage == [room_id |-> None, message |-> None, msgtype |-> None]

\* Variant: exit(1).
HandlerExitStatus_One == 0 + 1

\* Status of exit(): SystemExit(None), a successful exit.
HandlerExitStatus == 0
\* Status of argparse's parser.error().
UsageExitStatus == 2
\* Status of an uncaught exception.
UncaughtExitStatus == 1

\* ------------------------------------------------------------ the state
Init ==
    /\ argv \in ArgvSet
    /\ args = UnparsedArgs
    /\ pc = "parse"
    /\ constructed = FALSE
    /\ rooms = <<>>
    /\ idx = 1
    /\ joined_room_id = None
    /\ pending = NoMessage
    /\ sent = <<>>
    /\ attempts = 0
    /\ netCalls = 0
    /\ exitStatus = <<>>
    /\ exitedBy = None
    /\ lifecycle = "not_started"
    /\ syncTick = FALSE

\* An exception nobody catches: traceback, non-zero status.
Uncaught ==
    /\ pc' = "exited"
    /\ exitStatus' = <<UncaughtExitStatus>>
    /\ exitedBy' = "error"
    /\ lifecycle' = "exited"

\* ---------------------------------------------------------- the actions
\* Line 15, a command line argparse accepts: whatever flags are missing.
ParseArgs ==
    /\ pc = "parse"
    /\ ~argv.malformed
    /\ args' = Namespace(argv)
    /\ pc' = "creds"
    /\ UNCHANGED <<argv, constructed, rooms, idx, joined_room_id, pending,
                   sent, attempts, netCalls, exitStatus, exitedBy,
                   lifecycle, syncTick>>

\* Line 15, a command line argparse cannot parse: usage error, status 2.
ParseArgsError ==
    /\ pc = "parse"
    /\ argv.malformed
    /\ pc' = "exited"
    /\ exitStatus' = <<UsageExitStatus>>
    /\ exitedBy' = "usage"
    /\ lifecycle' = "exited"
    /\ UNCHANGED <<argv, args, constructed, rooms, idx, joined_room_id,
                   pending, sent, attempts, netCalls, syncTick>>

\* Line 17: the credentials object is built from whatever was parsed.
MakeCreds ==
    /\ pc = "creds"
    /\ pc' = "bot"
    /\ UNCHANGED <<argv, args, constructed, rooms, idx, joined_room_id,
                   pending, sent, attempts, netCalls, exitStatus, exitedBy,
                   lifecycle, syncTick>>

\* Line 17: the library may refuse the values it is given.
MakeCredsRaises ==
    /\ pc = "creds"
    /\ Uncaught
    /\ UNCHANGED <<argv, args, constructed, rooms, idx, joined_room_id,
                   pending, sent, attempts, netCalls, syncTick>>

\* Lines 18-21: the client is constructed and the handler registered.
MakeBot ==
    /\ pc = "bot"
    /\ constructed' = TRUE
    /\ pc' = "run"
    /\ UNCHANGED <<argv, args, rooms, idx, joined_room_id, pending, sent,
                   attempts, netCalls, exitStatus, exitedBy, lifecycle,
                   syncTick>>

\* Line 34: login and first sync succeed; the client knows its rooms.
Connect ==
    /\ pc = "run"
    /\ \E rs \in RoomSeqs : rooms' = rs
    /\ idx' = 1
    /\ netCalls' = netCalls + 1
    /\ lifecycle' = "connected"
    /\ pc' = "deliver"
    /\ UNCHANGED <<argv, args, constructed, joined_room_id, pending, sent,
                   attempts, exitStatus, exitedBy, syncTick>>

\* Line 34: bad credentials or an unreachable homeserver.
ConnectFails ==
    /\ pc = "run"
    /\ netCalls' = netCalls + 1
    /\ Uncaught
    /\ UNCHANGED <<argv, args, constructed, rooms, idx, joined_room_id,
                   pending, sent, attempts, syncTick>>

\* Line 34: the client's startup loop calls the handler for the next room
\* and awaits it before it goes on.
DeliverJoin ==
    /\ pc = "deliver"
    /\ idx <= Len(rooms)
    /\ joined_room_id' = rooms[idx]
    /\ idx' = idx + 1
    /\ pc' = "handler"
    /\ UNCHANGED <<argv, args, constructed, rooms, pending, sent, attempts,
                   netCalls, exitStatus, exitedBy, lifecycle, syncTick>>

\* Variant: the client returns from run() once the startup calls are done,
\* and the script ends.
SyncForever_Returns ==
    /\ pc = "deliver"
    /\ idx > Len(rooms)
    /\ pc' = "exited"
    /\ exitStatus' = <<0>>
    /\ exitedBy' = "return"
    /\ lifecycle' = "exited"
    /\ UNCHANGED <<argv, args, constructed, rooms, idx, joined_room_id,
                   pending, sent, attempts, netCalls, syncTick>>

\* Line 34: every startup call has returned; the client syncs forever.
SyncForever ==
    /\ pc = "deliver"
    /\ idx > Len(rooms)
    /\ pc' = "sync_forever"
    /\ UNCHANGED <<argv, args, constructed, rooms, idx, joined_room_id,
                   pending, sent, attempts, netCalls, exitStatus, exitedBy,
                   lifecycle, syncTick>>

\* Variant: exit() on a room that is not the target.
HandlerSkip_Exits ==
    /\ pc = "handler"
    /\ RoomFiltered(args.room, joined_room_id)
    /\ pc' = "exited"
    /\ exitStatus' = <<HandlerExitStatus>>
    /\ exitedBy' = "handler"
    /\ lifecycle' = "exited"
    /\ UNCHANGED <<argv, args, constructed, rooms, idx, joined_room_id,
                   pending, sent, attempts, netCalls, syncTick>>

\* Lines 22-23: a target is set and is not this room: return.
HandlerSkip ==
    /\ pc = "handler"
    /\ RoomFiltered(args.room, joined_room_id)
    /\ pc' = "deliver"
    /\ lifecycle' = "skipped"
    /\ UNCHANGED <<argv, args, constructed, rooms, idx, joined_room_id,
                   pending, sent, attempts, netCalls, exitStatus, exitedBy,
                   syncTick>>

\* Lines 25-30: build the message and start the send; the handler is
\* suspended at the await.
HandlerSend ==
    /\ pc = "handler"
    /\ ~RoomFiltered(args.room, joined_room_id)
    /\ pending' = [room_id |-> joined_room_id,
                   message |-> FormatMessage(args.message),
                   msgtype |-> "m.notice"]
    /\ attempts' = attempts + 1
    /\ netCalls' = netCalls + 1
    /\ pc' = "sending"
    /\ UNCHANGED <<argv, args, constructed, rooms, idx, joined_room_id,
                   sent, exitStatus, exitedBy, lifecycle, syncTick>>

\* Line 27: the awaited send returns; the message is out.
SendCompletes ==
    /\ pc = "sending"
    /\ sent' = Append(sent, pending)
    /\ lifecycle' = "sent"
    /\ pc' = "after_send"
    /\ UNCHANGED <<argv, args, constructed, rooms, idx, joined_room_id,
                   pending, attempts, netCalls, exitStatus, exitedBy,
                   syncTick>>

\* Variant: the send is wrapped in a retry loop.
SendFails_Retries ==
    /\ pc = "sending"
    /\ attempts < MaxRooms + 2
    /\ attempts' = attempts + 1
    /\ netCalls' = netCalls + 1
    /\ UNCHANGED <<argv, args, pc, constructed, rooms, idx, joined_room_id,
                   pending, sent, exitStatus, exitedBy, lifecycle,
                   syncTick>>

\* Line 27: the awaited send raises; no try/except around it, so the
\* exception leaves the handler and the client.
SendFails ==
    /\ pc = "sending"
    /\ Uncaught
    /\ UNCHANGED <<argv, args, constructed, rooms, idx, joined_room_id,
                   pending, sent, attempts, netCalls, syncTick>>

\* Variant: the exit() call is missing; the handler returns to the client.
HandlerExit_Returns ==
    /\ pc = "after_send"
    /\ pc' = "deliver"
    /\ UNCHANGED <<argv, args, constructed, rooms, idx, joined_room_id,
                   pending, sent, attempts, netCalls, exitStatus, exitedBy,
                   lifecycle, syncTick>>

\* Line 32: exit() ends the process with a successful status.
HandlerExit ==
    /\ pc = "after_send"
    /\ pc' = "exited"
    /\ exitStatus' = <<HandlerExitStatus>>
    /\ exitedBy' = "handler"
    /\ lifecycle' = "exited"
    /\ UNCHANGED <<argv, args, constructed, rooms, idx, joined_room_id,
                   pending, sent, attempts, netCalls, syncTick>>

\* Line 34: one more round of the client's sync loop; startup handlers are
\* not called again.  syncTick tells one round from the next.
SyncAgain ==
    /\ pc = "sync_forever"
    /\ syncTick' = ~syncTick
    /\ UNCHANGED <<argv, args, pc, constructed, rooms, idx, joined_room_id,
                   pending, sent, attempts, netCalls, exitStatus, exitedBy,
                   lifecycle>>

Next ==
    \/ ParseArgs
    \/ ParseArgsError
    \/ MakeCreds
    \/ MakeCredsRaises
    \/ MakeBot
    \/ Connect
    \/ ConnectFails
    \/ DeliverJoin
    \/ SyncForever
    \/ SyncAgain
    \/ HandlerSkip
    \/ HandlerSend
    \/ SendCompletes
    \/ SendFails
    \/ HandlerExit

Spec == Init /\ [][Next]_vars

\* The interpreter and the event loop keep running whatever can run.
FairSpec == Spec /\ WF_vars(Next)

\* ------------------------------------------------------------- helpers
\* Every message that went out, and the one being sent if a send is under
\* way.
Outgoing ==
    {sent[i] : i \in 1..Len(sent)} \cup
        (IF pc = "sending" THEN {pending} ELSE {})

\* The process has ended with a non-zero status.  exitStatus is <<>> while
\* the process runs and <<n>> once it has ended with status n.
ExitedNonZero == Len(exitStatus) = 1 /\ exitStatus[1] # 0

\* Flags of the command line that were not given.
MissingFlag ==
    None \in {argv.message, argv.server, argv.user, argv.token}

\* ---------------------------------------------------------------- claims

\* C1: at most one message is ever sent in one run: once a send has
\* completed the handler is at its exit() or the process has ended, exactly
\* one send was ever started, and no later join event is handled.
C1_AtMostOneSend ==
    /\ Len(sent) <= 1
    /\ attempts <= 1
    /\ sent # <<>> => /\ pc \in {"after_send", "exited"}
                      /\ attempts = 1
                      /\ joined_room_id = sent[1].room_id

\* The process has ended after its send while a join event was still to be
\* delivered.
C1_Witness ==
    /\ pc = "exited"
    /\ Len(sent) = 1
    /\ idx <= Len(rooms)

\* C2: with a target room given and a join event for that room, the handler
\* starts a send of the command line's message text, unchanged, with
\* msgtype m.notice, to the joined room.
C2_MatchSendsVerbatim ==
    [][(/\ pc = "handler"
        /\ argv.room \notin {None, ""}
        /\ argv.room = joined_room_id
        /\ argv.message # None)
       => (/\ pc' = "sending"
           /\ pending' = [room_id |-> joined_room_id,
                          message |-> argv.message,
                          msgtype |-> "m.notice"])]_vars

\* The message with markdown in it went out to the target room, which was
\* not the first room joined.
C2_Witness ==
    /\ argv.room \notin {None, ""}
    /\ argv.message = "**build failed**"
    /\ Len(sent) = 1
    /\ sent[1].room_id = argv.room
    /\ rooms[1] # argv.room

C4_NoTargetFirstRoom ==
    argv.room = None =>
        /\ lifecycle # "skipped"
        /\ \A m \in Outgoing : m.room_id = rooms[1]
        /\ Len(sent) <= 1
        /\ pc \in {"sending", "after_send"} => idx = 2

\* No target, several rooms joined, the message went out.
C4_Witness ==
    /\ argv.room = None
    /\ Len(rooms) >= 2
    /\ Len(sent) = 1
    /\ sent[1].room_id = rooms[1]

\* C5: a command line that omits one of message, server, user, token is
\* rejected by argument parsing with a non-zero status, before the client
\* is constructed and before any network call.
C5_MissingFlagRejected ==
    (MissingFlag /\ pc # "parse") =>
        /\ pc = "exited"
        /\ exitedBy = "usage"
        /\ ExitedNonZero
        /\ ~constructed
        /\ netCalls = 0

\* C6: the handler ends the process only right after a completed send:
\* from the state after the send the one step is exit() with status 0,
\* whatever events are pending, and the handler's exit happens from no
\* other state.
C6_ExitFollowsSend ==
    [][/\ pc = "after_send" =>
            /\ pc' = "exited"
            /\ exitStatus' = <<0>>
            /\ exitedBy' = "handler"
            /\ sent' = sent
       /\ (exitedBy' = "handler" /\ exitedBy # "handler") =>
            /\ pc = "after_send"
            /\ Len(sent) = 1
            /\ attempts = 1]_vars

\* The handler ended the process with status 0 while two join events were
\* still to be delivered.
C6_Witness ==
    /\ exitedBy = "handler"
    /\ exitStatus = <<0>>
    /\ idx + 1 <= Len(rooms)

\* C7 as stated: every run that connects eventually reaches exited.
C7_ConnectedRunExits ==
    (lifecycle = "connected") ~> (lifecycle = "exited")

\* The steps of the lifecycle the code has: skipping repeats and may be
\* followed by a send; the process ends with status 0 only after the
\* message was sent, and a failure ends it with a non-zero status.
LifecycleStep ==
    \/ lifecycle' = lifecycle
    \/ lifecycle = "not_started" /\ lifecycle' = "connected"
    \/ lifecycle = "connected" /\ lifecycle' \in {"sent", "skipped"}
    \/ lifecycle = "skipped" /\ lifecycle' = "sent"
    \/ lifecycle = "sent" /\ lifecycle' = "exited" /\ exitStatus' = <<0>>
    \/ /\ lifecycle \in {"not_started", "connected", "skipped"}
       /\ lifecycle' = "exited"
       /\ ExitedNonZero'

\* C7, amended: the lifecycle is not-started -> connected -> skipped (any
\* number of events) -> sent -> exited, a failure ending the run with a
\* non-zero status from not-started, connected or skipped; a run that sent
\* its message eventually exits with status 0, and a run whose events were
\* all skipped stays in the client's loop.
C7_Lifecycle ==
    /\ [][LifecycleStep]_vars
    /\ (lifecycle = "sent") ~> (lifecycle = "exited" /\ exitStatus = <<0>>)
    /\ [](pc = "sync_forever" => lifecycle \in {"connected", "skipped"})

\* Every event was skipped and the client is in its sync loop.
C7_Witness ==
    /\ lifecycle = "skipped"
    /\ pc = "sync_forever"
    /\ Len(rooms) >= 2

\* C8: a send that fails (the awaited call raises) is neither caught nor
\* retried: no further attempt, nothing recorded as sent, the handler's
\* exit() is not reached, and the process ends with a failure status.
C8_SendFailurePropagates ==
    [][(pc = "sending" /\ pc' # "after_send")
       => (/\ pc' = "exited"
           /\ exitedBy' = "error"
           /\ ExitedNonZero'
           /\ attempts' = attempts
           /\ netCalls' = netCalls
           /\ sent' = sent)]_vars

\* The one send attempt failed and the process ended with a failure
\* status, nothing sent.
C8_Witness ==
    /\ exitedBy = "error"
    /\ attempts = 1
    /\ sent = <<>>
    /\ exitStatus = <<1>>

\* C9: every message that goes out is addressed to the room of the join
\* event the handler was called with, and to the target when a non-empty
\* target was given.
C9_RecipientIsTarget ==
    \A m \in Outgoing :
        /\ m.room_id = joined_room_id
        /\ m.room_id \in {rooms[i] : i \in 1..Len(rooms)}
        /\ argv.room \notin {None, ""} => m.room_id = argv.room

\* A message went out to the target after two other rooms were skipped.
C9_Witness ==
    /\ argv.room \notin {None, ""}
    /\ Len(sent) = 1
    /\ idx = 4

\* C10: an empty-string target disables the filter as an absent one does:
\* no event is skipped and the message goes to the room of the first join
\* event, although that room is not the (empty) target.
C10_EmptyTargetIsAbsent ==
    argv.room = "" =>
        /\ lifecycle # "skipped"
        /\ pc # "handler" \/ ~RoomFiltered(args.room, joined_room_id)
        /\ \A m \in Outgoing : m.room_id = rooms[1] /\ m.room_id # argv.room
        /\ Len(sent) <= 1

\* -r "" was given and the message went out to the first room.
C10_Witness ==
    /\ argv.room = ""
    /\ args.room = ""
    /\ Len(sent) = 1
    /\ sent[1].room_id = rooms[1]

====
